---- MODULE Spec2Model ----
(***************************************************************************)
(* DefaultTimerManager (backends/timer/default/default-timer.cpp).         *)
(*                                                                         *)
(* The queue is the list of TimerSlots that follows the sentinel _head:    *)
(* queue[1] is _head->next.  Every operation that takes the StackLock is   *)
(* split at the places where it reads or writes the queue or the registry, *)
(* so that the states inside a critical section are visible.  A thread     *)
(* that calls an operation while the mutex is taken simply has not taken   *)
(* its first step yet.                                                     *)
(*                                                                         *)
(* Times are uint32 in the code.  The clock of the model stays below       *)
(* MaxClock (MaxDriftClock in SpecDrift), far from 2^32, so no sum of the   *)
(* model wraps and the sums are written without the reduction modulo 2^32. *)
(***************************************************************************)
EXTENDS Integers, Sequences, FiniteSets, TLC

\* ---- bounds of the model ------------------------------------------------
MaxClock == 3
NumThreads == 2
MaxDriftClock == 2501

Threads == 1..NumThreads
Callbacks == {"c1", "c2"}
Ids == {"a", "b"}
RefCons == {"r1"}
Intervals == {0, 500, 1000}
PollIntervals == {1, 2}
DriftInterval == 2000 + 500

NoThread == 0
NoCallback == "nullptr"
NoTime == 0 - 1

\* ---- state --------------------------------------------------------------
VARIABLES
    clock,               \* g_system->getMillis()
    queue,               \* the TimerSlots after _head, in list order
    callbacks,           \* _callbacks : id -> callback
    timerCallbackNext,   \* _timerCallbackNext
    mutex,               \* owner of _mutex, or NoThread
    fatal,               \* "none", or the error()/assert that ended the process
    pc,                  \* per thread: position in the operation it runs
    args,                \* per thread: arguments of the running installTimerProc / removeTimerProc
    curTime,             \* per thread: handler's local curTime
    slot,                \* per thread: handler's local slot pointer (the TimerSlot it points to)
    ctTime,              \* per thread: checkTimers' local curTime (NoTime outside checkTimers)
    ctInterval,          \* per thread: checkTimers' argument
    removed,             \* history: callbacks whose removeTimerProc returned, not registered since
    freed,               \* history: per callback, the names its last removeTimerProc erased (until it is installed again)
    fireCount,           \* history: per callback, invocations since it was installed
    firstDeadline,       \* history: per callback, the combined deadline set by installTimerProc
    installed,           \* history: callbacks whose installTimerProc returned, not removed since
    passStart,           \* history: per callback, its combined deadline when the running handler pass began
    passLog,             \* history: the slots the running handler pass took for firing, in order
    lastRun              \* history: sampled time and interval of the last checkTimers call that ran handler

vars == <<clock, queue, callbacks, timerCallbackNext, mutex, fatal, pc, args,
          curTime, slot, ctTime, ctInterval, removed, freed, fireCount,
          firstDeadline, installed, passStart, passLog, lastRun>>

passHist == <<passStart, passLog, lastRun>>

hist == <<removed, freed, fireCount, firstDeadline, installed, passHist>>

\* ---- TimerSlot ------------------------------------------------------------
NoSlot ==
    [callback |-> NoCallback, refCon |-> "nullptr", id |-> "", interval |-> 0,
     nextFireTime |-> 0, nextFireTimeMicro |-> 0]

NoArgs == [callback |-> NoCallback, interval |-> 0, refCon |-> "nullptr", id |-> ""]

\* the deadline of a slot in microseconds
Combined(s) == s.nextFireTime * 1000 + s.nextFireTimeMicro

\* ---- insertPrioQueue ------------------------------------------------------
\* the walk of the while loop: the index of the first slot whose
\* nextFireTime is strictly greater, or Len(q) + 1
RECURSIVE insertPos(_, _, _)
insertPos(q, i, nextFireTime) ==
    IF i > Len(q) \/ nextFireTime < q[i].nextFireTime
    THEN i
    ELSE insertPos(q, i + 1, nextFireTime)

insertAtHead(q, newSlot) == <<newSlot>> \o q

insertAtTail(q, newSlot) == Append(q, newSlot)

insertLosingRest(q, newSlot) == <<newSlot>>

insertBeforeEqual(q, newSlot) ==
    LET p == 1 + Cardinality({i \in DOMAIN q :
                                q[i].nextFireTime < newSlot.nextFireTime})
    IN  SubSeq(q, 1, p - 1) \o <<newSlot>> \o SubSeq(q, p, Len(q))

insertPrioQueue(q, newSlot) ==
    LET p == insertPos(q, 1, newSlot.nextFireTime)
    IN  SubSeq(q, 1, p - 1) \o <<newSlot>> \o SubSeq(q, p, Len(q))

\* ---- handler: rescheduling of a due slot ------------------------------------
SlotDueInclusive(q, now) == q # <<>> /\ q[1].nextFireTime <= now

SlotDue(q, now) == q # <<>> /\ q[1].nextFireTime < now

AdvanceSlotDropMicro(s) ==
    [s EXCEPT !.nextFireTime = s.nextFireTime + (s.interval \div 1000)]

AdvanceSlotExtraCarry(s) ==
    [s EXCEPT !.nextFireTime = s.nextFireTime + (s.interval \div 1000) + 1,
              !.nextFireTimeMicro = (s.nextFireTimeMicro + (s.interval % 1000)) % 1000]

AdvanceSlotTwice(s) ==
    [s EXCEPT !.nextFireTime = s.nextFireTime + 2 * (s.interval \div 1000)]

AdvanceSlotStuck(s) == s

AdvanceSlotChangesInterval(s) ==
    [s EXCEPT !.nextFireTime = s.nextFireTime + (s.interval \div 1000) + 1,
              !.interval = s.interval + s.interval]

AdvanceSlot(s) ==
    LET t1 == s.nextFireTime + (s.interval \div 1000)
        m1 == s.nextFireTimeMicro + (s.interval % 1000)
    IN  IF m1 > 1000
        THEN [s EXCEPT !.nextFireTime = t1 + (m1 \div 1000),
                       !.nextFireTimeMicro = m1 % 1000]
        ELSE [s EXCEPT !.nextFireTime = t1, !.nextFireTimeMicro = m1]

\* ---- Common::StackLock lock(_mutex) -------------------------------------------
\* the constructor returns only once no thread owns the mutex
LockIgnored(m) == TRUE

TryLock(m) == m = NoThread

\* ---- installTimerProc -----------------------------------------------------
NameCollisionIgnored(reg, id, callback) == FALSE

NameCollision(reg, id, callback) == id \in DOMAIN reg /\ reg[id] # callback

CallbackNeverRegistered(reg, callback) == FALSE

CallbackRegistered(reg, callback) == \E k \in DOMAIN reg : reg[k] = callback

InstallErrorNameOnly(reg, id, callback) ==
    IF NameCollision(reg, id, callback)
    THEN "Different callbacks are referred by same name"
    ELSE "none"

InstallError(reg, id, callback) ==
    IF NameCollision(reg, id, callback)
    THEN "Different callbacks are referred by same name"
    ELSE IF CallbackRegistered(reg, callback)
         THEN "Same callback added twice"
         ELSE "none"

SetCallback(reg, id, callback) ==
    [k \in DOMAIN reg \cup {id} |-> IF k = id THEN callback ELSE reg[k]]

NewSlotFromZero(a, now) ==
    [callback |-> a.callback, refCon |-> a.refCon, id |-> a.id,
     interval |-> a.interval,
     nextFireTime |-> a.interval \div 1000,
     nextFireTimeMicro |-> a.interval % 1000]

NewSlotNoInterval(a, now) ==
    [callback |-> a.callback, refCon |-> a.refCon, id |-> a.id,
     interval |-> 0,
     nextFireTime |-> now,
     nextFireTimeMicro |-> 0]

NewSlot(a, now) ==
    [callback |-> a.callback, refCon |-> a.refCon, id |-> a.id,
     interval |-> a.interval,
     nextFireTime |-> now + (a.interval \div 1000),
     nextFireTimeMicro |-> a.interval % 1000]

\* ---- removeTimerProc ------------------------------------------------------
RemoveSlotsKeepAll(q, callback) == q

RemoveSlotsDropFirst(q, callback) ==
    SelectSeq(IF q = <<>> THEN q ELSE Tail(q), LAMBDA s : s.callback # callback)

RemoveSlots(q, callback) == SelectSeq(q, LAMBDA s : s.callback # callback)

EraseNothing(reg, callback) == reg

EraseCallbacks(reg, callback) ==
    [k \in {j \in DOMAIN reg : reg[j] # callback} |-> reg[k]]

\* ---- history of a handler pass and of checkTimers ------------------------------
NoPass == [c \in Callbacks |-> NoTime]

NoRun == [time |-> NoTime, interval |-> 0]

\* the combined deadline of every queued callback
Deadlines(q) ==
    [c \in Callbacks |->
        IF \E i \in DOMAIN q : q[i].callback = c
        THEN Combined(q[CHOOSE i \in DOMAIN q : q[i].callback = c])
        ELSE NoTime]

\* ---- initial state: after DefaultTimerManager() ---------------------------
EmptyRegistry == [k \in {} |-> NoCallback]

Init ==
    /\ clock = 0
    /\ queue = <<>>
    /\ callbacks = EmptyRegistry
    /\ timerCallbackNext = 0
    /\ mutex = NoThread
    /\ fatal = "none"
    /\ pc = [t \in Threads |-> "idle"]
    /\ args = [t \in Threads |-> NoArgs]
    /\ curTime = [t \in Threads |-> 0]
    /\ slot = [t \in Threads |-> NoSlot]
    /\ ctTime = [t \in Threads |-> NoTime]
    /\ ctInterval = [t \in Threads |-> 0]
    /\ removed = {}
    /\ freed = [c \in Callbacks |-> {}]
    /\ fireCount = [c \in Callbacks |-> 0]
    /\ firstDeadline = [c \in Callbacks |-> 0]
    /\ installed = {}
    /\ passStart = NoPass
    /\ passLog = <<>>
    /\ lastRun = NoRun

Running == fatal = "none"

\* the clock source: milliseconds, non-decreasing
Tick ==
    /\ Running
    /\ clock < MaxClock
    /\ clock' = clock + 1
    /\ UNCHANGED <<queue, callbacks, timerCallbackNext, mutex, fatal, pc, args,
                   curTime, slot, ctTime, ctInterval, hist>>

\* ---- installTimerProc(callback, interval, refCon, id) -----------------------
\* assert(interval > 0) fails: the process ends before the lock is taken
InstallAssert(t, a) ==
    /\ Running
    /\ pc[t] = "idle"
    /\ ~(a.interval > 0)
    /\ fatal' = "assert(interval > 0)"
    /\ UNCHANGED <<clock, queue, callbacks, timerCallbackNext, mutex, pc, args, curTime,
                   slot, ctTime, ctInterval, hist>>

\* assert(interval > 0) holds; StackLock lock(_mutex)
InstallLock(t, a) ==
    /\ Running
    /\ pc[t] = "idle"
    /\ a.interval > 0
    /\ TryLock(mutex)
    /\ mutex' = t
    /\ args' = [args EXCEPT ![t] = a]
    /\ pc' = [pc EXCEPT ![t] = "i_check"]
    /\ UNCHANGED <<clock, queue, callbacks, timerCallbackNext, fatal, curTime,
                   slot, ctTime, ctInterval, hist>>

\* the two checks of the registry; error() ends the process
InstallCheck(t) ==
    /\ Running
    /\ pc[t] = "i_check"
    /\ LET e == InstallError(callbacks, args[t].id, args[t].callback)
       IN  /\ fatal' = e
           /\ pc' = [pc EXCEPT ![t] = IF e = "none" THEN "i_register" ELSE "i_error"]
    /\ UNCHANGED <<clock, queue, callbacks, timerCallbackNext, mutex, args,
                   curTime, slot, ctTime, ctInterval, hist>>

\* _callbacks[id] = callback
InstallRegister(t) ==
    /\ Running
    /\ pc[t] = "i_register"
    /\ callbacks' = SetCallback(callbacks, args[t].id, args[t].callback)
    /\ removed' = removed \ {args[t].callback}
    /\ pc' = [pc EXCEPT ![t] = "i_insert"]
    /\ UNCHANGED <<clock, queue, timerCallbackNext, mutex, fatal, args, curTime,
                   slot, ctTime, ctInterval, freed, fireCount, firstDeadline,
                   installed, passHist>>

\* new TimerSlot, its fields, insertPrioQueue(_head, slot)
InstallInsert(t) ==
    /\ Running
    /\ pc[t] = "i_insert"
    /\ LET s == NewSlot(args[t], clock)
       IN  /\ queue' = insertPrioQueue(queue, s)
           /\ firstDeadline' = [firstDeadline EXCEPT ![s.callback] = Combined(s)]
           /\ fireCount' = [fireCount EXCEPT ![s.callback] = 0]
    /\ pc' = [pc EXCEPT ![t] = "i_return"]
    /\ UNCHANGED <<clock, callbacks, timerCallbackNext, mutex, fatal, args,
                   curTime, slot, ctTime, ctInterval, removed, freed, installed,
                   passHist>>

\* return true; the StackLock is released
InstallReturn(t) ==
    /\ Running
    /\ pc[t] = "i_return"
    /\ mutex' = NoThread
    /\ freed' = [freed EXCEPT ![args[t].callback] = {}]
    /\ installed' = installed \cup {args[t].callback}
    /\ args' = [args EXCEPT ![t] = NoArgs]
    /\ pc' = [pc EXCEPT ![t] = "idle"]
    /\ UNCHANGED <<clock, queue, callbacks, timerCallbackNext, fatal, curTime,
                   slot, ctTime, ctInterval, removed, fireCount, firstDeadline,
                   passHist>>

\* ---- removeTimerProc(callback) ------------------------------------------------
\* StackLock lock(_mutex)
RemoveLock(t, c) ==
    /\ Running
    /\ pc[t] = "idle"
    /\ TryLock(mutex)
    /\ mutex' = t
    /\ args' = [args EXCEPT ![t] = [NoArgs EXCEPT !.callback = c]]
    /\ pc' = [pc EXCEPT ![t] = "r_scan"]
    /\ UNCHANGED <<clock, queue, callbacks, timerCallbackNext, fatal, curTime,
                   slot, ctTime, ctInterval, hist>>

\* the loop over the list: every slot with this callback is unlinked and deleted
RemoveScan(t) ==
    /\ Running
    /\ pc[t] = "r_scan"
    /\ queue' = RemoveSlots(queue, args[t].callback)
    /\ fireCount' = [fireCount EXCEPT ![args[t].callback] = 0]
    /\ firstDeadline' = [firstDeadline EXCEPT ![args[t].callback] = 0]
    /\ pc' = [pc EXCEPT ![t] = "r_erase"]
    /\ UNCHANGED <<clock, callbacks, timerCallbackNext, mutex, fatal, args,
                   curTime, slot, ctTime, ctInterval, removed, freed, installed,
                   passHist>>

\* the loop over _callbacks: every name of this callback is erased
RemoveErase(t) ==
    /\ Running
    /\ pc[t] = "r_erase"
    /\ callbacks' = EraseCallbacks(callbacks, args[t].callback)
    /\ freed' = [freed EXCEPT ![args[t].callback] =
                    {k \in DOMAIN callbacks : callbacks[k] = args[t].callback}]
    /\ pc' = [pc EXCEPT ![t] = "r_return"]
    /\ UNCHANGED <<clock, queue, timerCallbackNext, mutex, fatal, args, curTime,
                   slot, ctTime, ctInterval, removed, fireCount, firstDeadline,
                   installed, passHist>>

\* removeTimerProc returns; the StackLock is released
RemoveReturn(t) ==
    /\ Running
    /\ pc[t] = "r_return"
    /\ mutex' = NoThread
    /\ removed' = removed \cup {args[t].callback}
    /\ installed' = installed \ {args[t].callback}
    /\ args' = [args EXCEPT ![t] = NoArgs]
    /\ pc' = [pc EXCEPT ![t] = "idle"]
    /\ UNCHANGED <<clock, queue, callbacks, timerCallbackNext, fatal, curTime,
                   slot, ctTime, ctInterval, freed, fireCount, firstDeadline,
                   passHist>>

\* ---- handler() --------------------------------------------------------------
\* StackLock lock(_mutex); curTime = getMillis(true); called directly or from
\* checkTimers
HandlerLock(t) ==
    /\ Running
    /\ pc[t] \in {"idle", "c_handler"}
    /\ TryLock(mutex)
    /\ mutex' = t
    /\ curTime' = [curTime EXCEPT ![t] = clock]
    /\ passStart' = Deadlines(queue)
    /\ passLog' = <<>>
    /\ pc' = [pc EXCEPT ![t] = "h_loop"]
    /\ UNCHANGED <<clock, queue, callbacks, timerCallbackNext, fatal, args, slot,
                   ctTime, ctInterval, removed, freed, fireCount, firstDeadline,
                   installed, lastRun>>

\* the loop condition holds: the first slot is unlinked and its deadline advanced
HandlerUnlink(t) ==
    /\ Running
    /\ pc[t] = "h_loop"
    /\ SlotDue(queue, curTime[t])
    /\ queue' = Tail(queue)
    /\ passLog' = Append(passLog, [callback |-> Head(queue).callback,
                                   scheduled |-> Head(queue).nextFireTime])
    /\ IF Head(queue).interval > 0
       THEN /\ slot' = [slot EXCEPT ![t] = AdvanceSlot(Head(queue))]
            /\ pc' = [pc EXCEPT ![t] = "h_reinsert"]
            /\ fatal' = fatal
       ELSE /\ slot' = [slot EXCEPT ![t] = Head(queue)]
            /\ pc' = [pc EXCEPT ![t] = "h_error"]
            /\ fatal' = "assert(slot->interval > 0)"
    /\ UNCHANGED <<clock, callbacks, timerCallbackNext, mutex, args, curTime,
                   ctTime, ctInterval, removed, freed, fireCount, firstDeadline,
                   installed, passStart, lastRun>>

\* insertPrioQueue(_head, slot)
HandlerReinsert(t) ==
    /\ Running
    /\ pc[t] = "h_reinsert"
    /\ queue' = insertPrioQueue(queue, slot[t])
    /\ pc' = [pc EXCEPT ![t] = "h_invoke"]
    /\ UNCHANGED <<clock, callbacks, timerCallbackNext, mutex, fatal, args,
                   curTime, slot, ctTime, ctInterval, hist>>

\* slot->callback(slot->refCon); slot = _head->next
HandlerInvoke(t) ==
    /\ Running
    /\ pc[t] = "h_invoke"
    /\ fireCount' = [fireCount EXCEPT ![slot[t].callback] = @ + 1]
    /\ slot' = [slot EXCEPT ![t] = NoSlot]
    /\ pc' = [pc EXCEPT ![t] = "h_loop"]
    /\ UNCHANGED <<clock, queue, callbacks, timerCallbackNext, mutex, fatal, args,
                   curTime, ctTime, ctInterval, removed, freed, firstDeadline,
                   installed, passHist>>

\* the loop condition fails: the loop is left
HandlerExit(t) ==
    /\ Running
    /\ pc[t] = "h_loop"
    /\ ~SlotDue(queue, curTime[t])
    /\ pc' = [pc EXCEPT ![t] = "h_exit"]
    /\ UNCHANGED <<clock, queue, callbacks, timerCallbackNext, mutex, fatal, args,
                   curTime, slot, ctTime, ctInterval, hist>>

\* handler returns and the StackLock is released
HandlerReturn(t) ==
    /\ Running
    /\ pc[t] = "h_exit"
    /\ mutex' = NoThread
    /\ curTime' = [curTime EXCEPT ![t] = 0]
    /\ passStart' = NoPass
    /\ passLog' = <<>>
    /\ pc' = [pc EXCEPT ![t] = IF ctTime[t] = NoTime THEN "idle" ELSE "c_set"]
    /\ UNCHANGED <<clock, queue, callbacks, timerCallbackNext, fatal, args, slot,
                   ctTime, ctInterval, removed, freed, fireCount, firstDeadline,
                   installed, lastRun>>

\* ---- checkTimers(interval) --------------------------------------------------
\* curTime = getMillis(); the test against _timerCallbackNext
TimersDueStrict(now, next) == now > next

TimersDue(now, next) == now >= next

CheckTimersTest(t, interval) ==
    /\ Running
    /\ pc[t] = "idle"
    /\ ctTime' = [ctTime EXCEPT ![t] = clock]
    /\ ctInterval' = [ctInterval EXCEPT ![t] = interval]
    /\ pc' = [pc EXCEPT ![t] = IF TimersDue(clock, timerCallbackNext)
                               THEN "c_handler" ELSE "c_return"]
    /\ UNCHANGED <<clock, queue, callbacks, timerCallbackNext, mutex, fatal, args,
                   curTime, slot, hist>>

\* _timerCallbackNext = curTime + interval; checkTimers returns
CheckTimersSet(t) ==
    /\ Running
    /\ pc[t] = "c_set"
    /\ timerCallbackNext' = ctTime[t] + ctInterval[t]
    /\ lastRun' = [time |-> ctTime[t], interval |-> ctInterval[t]]
    /\ ctTime' = [ctTime EXCEPT ![t] = NoTime]
    /\ ctInterval' = [ctInterval EXCEPT ![t] = 0]
    /\ pc' = [pc EXCEPT ![t] = "idle"]
    /\ UNCHANGED <<clock, queue, callbacks, mutex, fatal, args, curTime, slot,
                   removed, freed, fireCount, firstDeadline, installed, passStart,
                   passLog>>

\* the test failed: checkTimers returns
CheckTimersSkip(t) ==
    /\ Running
    /\ pc[t] = "c_return"
    /\ ctTime' = [ctTime EXCEPT ![t] = NoTime]
    /\ ctInterval' = [ctInterval EXCEPT ![t] = 0]
    /\ pc' = [pc EXCEPT ![t] = "idle"]
    /\ UNCHANGED <<clock, queue, callbacks, timerCallbackNext, mutex, fatal, args,
                   curTime, slot, hist>>

\* ---- the program --------------------------------------------------------------
InstallArgs ==
    [callback : Callbacks, interval : Intervals, refCon : RefCons, id : Ids]

Next ==
    \/ Tick
    \/ \E t \in Threads, a \in InstallArgs : InstallAssert(t, a)
    \/ \E t \in Threads, a \in InstallArgs : InstallLock(t, a)
    \/ \E t \in Threads : InstallCheck(t)
    \/ \E t \in Threads : InstallRegister(t)
    \/ \E t \in Threads : InstallInsert(t)
    \/ \E t \in Threads : InstallReturn(t)
    \/ \E t \in Threads, c \in Callbacks : RemoveLock(t, c)
    \/ \E t \in Threads : RemoveScan(t)
    \/ \E t \in Threads : RemoveErase(t)
    \/ \E t \in Threads : RemoveReturn(t)
    \/ \E t \in Threads : HandlerLock(t)
    \/ \E t \in Threads : HandlerUnlink(t)
    \/ \E t \in Threads : HandlerReinsert(t)
    \/ \E t \in Threads : HandlerInvoke(t)
    \/ \E t \in Threads : HandlerExit(t)
    \/ \E t \in Threads : HandlerReturn(t)

Spec == Init /\ [][Next]_vars

\* ---- handler driven through checkTimers ---------------------------------------
\* One thread polls checkTimers; the other threads install and remove timers.
PollThread == CHOOSE t \in Threads : \A u \in Threads : t <= u
Clients == Threads \ {PollThread}
PollArgs == [callback : Callbacks, interval : {1000}, refCon : RefCons, id : {"a"}]

NextPoll ==
    \/ Tick
    \/ \E i \in PollIntervals : CheckTimersTest(PollThread, i)
    \/ CheckTimersSkip(PollThread)
    \/ CheckTimersSet(PollThread)
    \/ pc[PollThread] = "c_handler" /\ HandlerLock(PollThread)
    \/ HandlerUnlink(PollThread)
    \/ HandlerReinsert(PollThread)
    \/ HandlerInvoke(PollThread)
    \/ HandlerExit(PollThread)
    \/ HandlerReturn(PollThread)
    \/ \E t \in Clients, a \in PollArgs : InstallLock(t, a)
    \/ \E t \in Clients : InstallCheck(t)
    \/ \E t \in Clients : InstallRegister(t)
    \/ \E t \in Clients : InstallInsert(t)
    \/ \E t \in Clients : InstallReturn(t)
    \/ \E t \in Clients, c \in Callbacks : RemoveLock(t, c)
    \/ \E t \in Clients : RemoveScan(t)
    \/ \E t \in Clients : RemoveErase(t)
    \/ \E t \in Clients : RemoveReturn(t)

SpecPoll == Init /\ [][NextPoll]_vars

\* ---- one timer followed over a long run of the clock ------------------------
\* The clock advances one millisecond at a time, between the calls, and a handler
\* pass may start at any time, but the clock waits once the first slot is MaxLag
\* milliseconds late.
MaxLag == 2
DriftThread == CHOOSE t \in Threads : \A u \in Threads : t <= u
DriftArgs ==
    [callback : {"c1"}, interval : {500, DriftInterval}, refCon : RefCons, id : {"a"}]

DriftTick ==
    /\ Running
    /\ clock < MaxDriftClock
    /\ queue # <<>> => clock - queue[1].nextFireTime < MaxLag
    /\ \A t \in Threads : pc[t] = "idle"
    /\ clock' = clock + 1
    /\ UNCHANGED <<queue, callbacks, timerCallbackNext, mutex, fatal, pc, args,
                   curTime, slot, ctTime, ctInterval, hist>>

NextDrift ==
    \/ DriftTick
    \/ \E a \in DriftArgs : clock = 0 /\ InstallLock(DriftThread, a)
    \/ InstallCheck(DriftThread)
    \/ InstallRegister(DriftThread)
    \/ InstallInsert(DriftThread)
    \/ InstallReturn(DriftThread)
    \/ HandlerLock(DriftThread)
    \/ HandlerUnlink(DriftThread)
    \/ HandlerReinsert(DriftThread)
    \/ HandlerInvoke(DriftThread)
    \/ HandlerExit(DriftThread)
    \/ HandlerReturn(DriftThread)

SpecDrift == Init /\ [][NextDrift]_vars

\* ---- a timer that has fallen behind ------------------------------------------
\* One timer with a whole-millisecond interval, installed at any time; the clock
\* advances between the calls and a handler pass may start at any time.
MaxLateClock == 36
LateArgs ==
    [callback : {"c1"}, interval : {1000, 3000, 10000}, refCon : RefCons, id : {"a"}]

LateTick ==
    /\ Running
    /\ clock < MaxLateClock
    /\ \A t \in Threads : pc[t] = "idle"
    /\ clock' = clock + 1
    /\ UNCHANGED <<queue, callbacks, timerCallbackNext, mutex, fatal, pc, args,
                   curTime, slot, ctTime, ctInterval, hist>>

NextLate ==
    \/ LateTick
    \/ \E a \in LateArgs : queue = <<>> /\ InstallLock(DriftThread, a)
    \/ InstallCheck(DriftThread)
    \/ InstallRegister(DriftThread)
    \/ InstallInsert(DriftThread)
    \/ InstallReturn(DriftThread)
    \/ HandlerLock(DriftThread)
    \/ HandlerUnlink(DriftThread)
    \/ HandlerReinsert(DriftThread)
    \/ HandlerInvoke(DriftThread)
    \/ HandlerExit(DriftThread)
    \/ HandlerReturn(DriftThread)

SpecLate == Init /\ [][NextLate]_vars

\* ---- two timers, A every millisecond and B every three --------------------------
\* A is installed under id "a" with 1000 microseconds, B under id "b" with 3000; the
\* clock advances between the calls and a handler pass may start at any time.
MaxPairClock == 5
TimerA == [callback |-> "c1", interval |-> 1000, refCon |-> "r1", id |-> "a"]
TimerB == [callback |-> "c2", interval |-> 3000, refCon |-> "r1", id |-> "b"]

PairTick ==
    /\ Running
    /\ clock < MaxPairClock
    /\ \A t \in Threads : pc[t] = "idle"
    /\ clock' = clock + 1
    /\ UNCHANGED <<queue, callbacks, timerCallbackNext, mutex, fatal, pc, args,
                   curTime, slot, ctTime, ctInterval, hist>>

NextPair ==
    \/ PairTick
    \/ \E a \in {TimerA, TimerB} : InstallLock(DriftThread, a)
    \/ InstallCheck(DriftThread)
    \/ InstallRegister(DriftThread)
    \/ InstallInsert(DriftThread)
    \/ InstallReturn(DriftThread)
    \/ HandlerLock(DriftThread)
    \/ HandlerUnlink(DriftThread)
    \/ HandlerReinsert(DriftThread)
    \/ HandlerInvoke(DriftThread)
    \/ HandlerExit(DriftThread)
    \/ HandlerReturn(DriftThread)

SpecPair == Init /\ [][NextPair]_vars

\* ---- handler passes that must end ------------------------------------------------
\* One thread installs up to two timers, with intervals below, at and above one
\* millisecond, and runs handler passes; the clock advances between the calls. A
\* thread inside handler keeps running: the callbacks return.
MaxPassClock == 3
PassArgs ==
    [callback : {"c1"}, interval : {250, 500, 1000}, refCon : RefCons, id : {"a"}]
    \cup [callback : {"c2"}, interval : {250, 1500}, refCon : RefCons, id : {"b"}]

PassTick ==
    /\ Running
    /\ clock < MaxPassClock
    /\ \A t \in Threads : pc[t] = "idle"
    /\ clock' = clock + 1
    /\ UNCHANGED <<queue, callbacks, timerCallbackNext, mutex, fatal, pc, args,
                   curTime, slot, ctTime, ctInterval, hist>>

HandlerStep(t) ==
    \/ HandlerUnlink(t)
    \/ HandlerReinsert(t)
    \/ HandlerInvoke(t)
    \/ HandlerExit(t)
    \/ HandlerReturn(t)

NextPass ==
    \/ PassTick
    \/ \E a \in PassArgs : InstallLock(DriftThread, a)
    \/ InstallCheck(DriftThread)
    \/ InstallRegister(DriftThread)
    \/ InstallInsert(DriftThread)
    \/ InstallReturn(DriftThread)
    \/ HandlerLock(DriftThread)
    \/ HandlerStep(DriftThread)

SpecPass == Init /\ [][NextPass]_vars /\ WF_vars(HandlerStep(DriftThread))

\* ---- polling that goes on ------------------------------------------------------------
\* One thread keeps calling checkTimers; the other threads install two timers that
\* stay registered, with intervals below and at one millisecond. A thread that has
\* taken the mutex keeps running until it has released it, and the polling thread
\* keeps calling checkTimers.
MaxStarveClock == 3
StarveArgs ==
    [callback : {"c1"}, interval : {250, 1000}, refCon : RefCons, id : {"a"}]
    \cup [callback : {"c2"}, interval : {500}, refCon : RefCons, id : {"b"}]

StarveTick ==
    /\ Running
    /\ clock < MaxStarveClock
    /\ \A t \in Threads : pc[t] = "idle"
    /\ clock' = clock + 1
    /\ UNCHANGED <<queue, callbacks, timerCallbackNext, mutex, fatal, pc, args,
                   curTime, slot, ctTime, ctInterval, hist>>

PollStep ==
    \/ \E i \in PollIntervals : CheckTimersTest(PollThread, i)
    \/ CheckTimersSkip(PollThread)
    \/ CheckTimersSet(PollThread)
    \/ pc[PollThread] = "c_handler" /\ HandlerLock(PollThread)
    \/ HandlerStep(PollThread)

ClientStep(t) ==
    \/ InstallCheck(t)
    \/ InstallRegister(t)
    \/ InstallInsert(t)
    \/ InstallReturn(t)

NextStarve ==
    \/ StarveTick
    \/ PollStep
    \/ \E t \in Clients, a \in StarveArgs : InstallLock(t, a)
    \/ \E t \in Clients : ClientStep(t)

SpecStarve ==
    /\ Init
    /\ [][NextStarve]_vars
    /\ WF_vars(PollStep)
    /\ \A t \in Clients : WF_vars(ClientStep(t))

\* ==== properties ===============================================================
SlotsOf(c) == {i \in DOMAIN queue : queue[i].callback = c}
NamesOf(reg, c) == {k \in DOMAIN reg : reg[k] = c}
InHandlerWith(c) ==
    \E t \in Threads : pc[t] \in {"h_reinsert", "h_invoke"} /\ slot[t].callback = c

\* C1: the queue after the sentinel is sorted ascending by nextFireTime, in every
\* state reached by installTimerProc, removeTimerProc and handler (including the
\* states inside a handler pass).
C1_QueueSorted ==
    \A i \in 1..(Len(queue) - 1) :
        queue[i].nextFireTime <= queue[i + 1].nextFireTime

\* a slot that has fired was reinserted behind a slot with an earlier deadline
C1_Witness ==
    /\ Len(queue) = 2
    /\ queue[1].nextFireTime < queue[2].nextFireTime
    /\ fireCount[queue[2].callback] > 0

\* C2: whenever no operation is in progress (the mutex is free), every slot of
\* the queue has the registry entry id -> callback and every registry entry has a
\* slot with that id and callback.
QueueRegistryAgree ==
    /\ \A i \in DOMAIN queue :
          queue[i].id \in DOMAIN callbacks /\ callbacks[queue[i].id] = queue[i].callback
    /\ \A k \in DOMAIN callbacks :
          \E i \in DOMAIN queue : queue[i].id = k /\ queue[i].callback = callbacks[k]

C2_QueueMatchesRegistry == mutex = NoThread => QueueRegistryAgree

\* after an install, a firing and a removal, with a timer still registered
C2_Witness ==
    /\ mutex = NoThread
    /\ Len(queue) = 1
    /\ removed # {}
    /\ fireCount[queue[1].callback] > 0

\* C3: while the process has not ended in a fatal error, no two slots of the
\* queue have the same id and no two have the same callback.
C3_UniqueIdAndCallback ==
    fatal = "none" =>
        \A i, j \in DOMAIN queue :
            i # j => queue[i].id # queue[j].id /\ queue[i].callback # queue[j].callback

C3_Witness == fatal = "none" /\ Len(queue) = 2 /\ mutex = NoThread

\* C4: the step of installTimerProc that checks the registry, taken while id is
\* bound to a different callback, ends in a fatal error and leaves the queue and
\* the registry as they were.
C4_NameCollisionIsFatal ==
    [][\A t \in Threads :
          (/\ pc[t] = "i_check"
           /\ pc'[t] # "i_check"
           /\ args[t].id \in DOMAIN callbacks
           /\ callbacks[args[t].id] # args[t].callback)
          => (fatal' # "none" /\ queue' = queue /\ callbacks' = callbacks)]_vars

C4_Witness ==
    /\ fatal = "Different callbacks are referred by same name"
    /\ \E t \in Threads :
          /\ pc[t] = "i_error"
          /\ args[t].id \in DOMAIN callbacks
          /\ callbacks[args[t].id] # args[t].callback
          /\ SlotsOf(args[t].callback) = {}
          /\ QueueRegistryAgree

\* C5: the checking step of installTimerProc, taken while the callback is in the
\* registry under any name, ends in a fatal error and leaves the queue and the
\* registry as they were; and at all times a callback has at most one slot and at
\* most one name.
C5_AtMostOnce ==
    \A c \in Callbacks :
        Cardinality(SlotsOf(c)) <= 1 /\ Cardinality(NamesOf(callbacks, c)) <= 1

C5_DuplicateCallbackIsFatal ==
    /\ []C5_AtMostOnce
    /\ [][\A t \in Threads :
            (/\ pc[t] = "i_check"
             /\ pc'[t] # "i_check"
             /\ NamesOf(callbacks, args[t].callback) # {})
            => (fatal' # "none" /\ queue' = queue /\ callbacks' = callbacks)]_vars

\* the callback is installed a second time under the very same id
C5_Witness ==
    /\ fatal = "Same callback added twice"
    /\ \E t \in Threads :
          /\ pc[t] = "i_error"
          /\ NamesOf(callbacks, args[t].callback) = {args[t].id}
          /\ Cardinality(SlotsOf(args[t].callback)) = 1

\* C6: when removeTimerProc(c) returns, c has no slot and no name and every name
\* it erased is unbound; and an installTimerProc whose callback is not registered
\* and whose id is unbound passes the checks, inserts its slot and returns.
C6_InstallSucceeds(t) ==
    /\ pc[t] = "i_check"
    /\ pc'[t] # "i_check"
    /\ args[t].id \notin DOMAIN callbacks
    /\ NamesOf(callbacks, args[t].callback) = {}
    => fatal' = "none" /\ pc'[t] = "i_register"

C6_RemoveFrees(t) ==
    /\ pc[t] = "r_return"
    /\ pc'[t] = "idle"
    => /\ NamesOf(callbacks', args[t].callback) = {}
       /\ \A i \in DOMAIN queue' : queue'[i].callback # args[t].callback
       /\ freed[args[t].callback] \cap DOMAIN callbacks' = {}

C6_Installed ==
    \A t \in Threads :
        pc[t] = "i_return" =>
            \E i \in DOMAIN queue :
                /\ queue[i].callback = args[t].callback
                /\ queue[i].id = args[t].id
                /\ callbacks[args[t].id] = args[t].callback

C6_ReinstallAfterRemove ==
    /\ []C6_Installed
    /\ [][\A t \in Threads : C6_InstallSucceeds(t) /\ C6_RemoveFrees(t)]_vars

\* the pair (id, callback) is installed again after its removal, about to return
C6_Witness ==
    \E t \in Threads :
        /\ pc[t] = "i_return"
        /\ args[t].id \in freed[args[t].callback]
        /\ fatal = "none"

\* C7: a callback whose removeTimerProc has returned, and that has not been
\* registered since, has no slot in the queue, no name in the registry, and is
\* not the slot a handler pass is rescheduling or invoking.
C7_RemovedNeverFires ==
    \A c \in removed :
        /\ SlotsOf(c) = {}
        /\ NamesOf(callbacks, c) = {}
        /\ ~InHandlerWith(c)

\* a handler pass invokes a callback after a registered callback was removed
C7_Witness ==
    \E c \in removed, t \in Threads :
        /\ freed[c] # {}
        /\ pc[t] = "h_invoke"

\* C8: removeTimerProc of a callback that has no slot and no name changes neither
\* the queue nor the registry and ends in no error; and removing a callback from
\* the result of removing it changes nothing.
C8_NoOp(t) ==
    /\ pc[t] \in {"r_scan", "r_erase", "r_return"}
    /\ pc'[t] # pc[t]
    /\ SlotsOf(args[t].callback) = {}
    /\ NamesOf(callbacks, args[t].callback) = {}
    => queue' = queue /\ callbacks' = callbacks /\ fatal' = fatal

C8_Idempotent ==
    \A c \in Callbacks :
        /\ RemoveSlots(RemoveSlots(queue, c), c) = RemoveSlots(queue, c)
        /\ EraseCallbacks(EraseCallbacks(callbacks, c), c) = EraseCallbacks(callbacks, c)

C8_RemoveAbsentIsNoOp ==
    /\ []C8_Idempotent
    /\ [][\A t \in Threads : C8_NoOp(t)]_vars

\* a second removeTimerProc of the same callback returns, another timer queued
C8_Witness ==
    \E t \in Threads :
        /\ pc[t] = "r_return"
        /\ args[t].callback \in removed
        /\ queue # <<>>
        /\ fatal = "none"

\* C9: the combined deadline of a slot is the one installTimerProc set plus the
\* interval times the number of its firings, whatever the clock was at each
\* firing; after 1000 firings of a 2500 microsecond timer nextFireTime is the
\* first one plus 2500 and nextFireTimeMicro is the first one.
Firings(c) == fireCount[c] + (IF InHandlerWith(c) THEN 1 ELSE 0)

LiveSlots ==
    {queue[i] : i \in DOMAIN queue}
        \cup {slot[t] : t \in {u \in Threads : pc[u] = "h_reinsert"}}

C9_DriftFree ==
    \A s \in LiveSlots :
        /\ Combined(s) = firstDeadline[s.callback] + Firings(s.callback) * s.interval
        /\ (s.interval = DriftInterval /\ Firings(s.callback) = 1000) =>
              /\ s.nextFireTime = (firstDeadline[s.callback] \div 1000) + DriftInterval
              /\ s.nextFireTimeMicro = firstDeadline[s.callback] % 1000

C9_Witness ==
    /\ Len(queue) = 1
    /\ queue[1].interval = DriftInterval
    /\ fireCount[queue[1].callback] = 1000
    /\ \A t \in Threads : pc[t] = "idle"

\* C10: nextFireTimeMicro of every slot is within 0..999.
C10_MicroInRange ==
    \A s \in LiveSlots : s.nextFireTimeMicro \in 0..999

\* C11: when a handler pass that sampled T leaves its loop, a slot with a
\* whole-millisecond interval k whose nextFireTime was s when the pass began has
\* been taken for firing ceil((T - s) / k) times if T > s (not at all otherwise)
\* and its nextFireTime is s + k * that number; a 10 ms timer installed at 0 and a
\* pass at 35 give 3 firings and nextFireTime 40.
PassFires(c) == Len(SelectSeq(passLog, LAMBDA e : e.callback = c))

CeilDiv(a, b) == (a + b - 1) \div b

C11_CatchUp ==
    \A t \in Threads :
        pc[t] = "h_exit" =>
            \A i \in DOMAIN queue :
                LET s  == queue[i]
                    k  == s.interval \div 1000
                    s0 == passStart[s.callback] \div 1000
                    n  == PassFires(s.callback)
                IN  (s.interval % 1000 = 0 /\ passStart[s.callback] # NoTime) =>
                        /\ n = IF curTime[t] > s0 THEN CeilDiv(curTime[t] - s0, k) ELSE 0
                        /\ s.nextFireTime = s0 + k * n
                        /\ fireCount[s.callback] * s.interval
                              = Combined(s) - firstDeadline[s.callback]

C11_Witness ==
    \E t \in Threads :
        /\ pc[t] = "h_exit"
        /\ curTime[t] = 35
        /\ Len(queue) = 1
        /\ queue[1].interval = 10000
        /\ firstDeadline[queue[1].callback] = 10000
        /\ passStart[queue[1].callback] = 10000
        /\ PassFires(queue[1].callback) = 3
        /\ fireCount[queue[1].callback] = 3
        /\ queue[1].nextFireTime = 40

\* ---- C12 ----------------------------------------------------------------------
\* A and B were both installed at clock 0 and have not fired before this pass:
\* their first deadlines, and their deadlines when the pass began, are 1 ms and 3 ms
PairAtZero ==
    /\ firstDeadline[TimerA.callback] = 1000
    /\ firstDeadline[TimerB.callback] = 3000
    /\ passStart[TimerA.callback] = 1000
    /\ passStart[TimerB.callback] = 3000

\* the outcome: A fired 3 times and B once; A is next due at 4 ms and B at 6 ms
PairOutcome ==
    /\ PassFires(TimerA.callback) = 3
    /\ PassFires(TimerB.callback) = 1
    /\ fireCount[TimerA.callback] = 3
    /\ fireCount[TimerB.callback] = 1
    /\ \A i \in DOMAIN queue :
          /\ queue[i].callback = TimerA.callback => queue[i].nextFireTime = 4
          /\ queue[i].callback = TimerB.callback => queue[i].nextFireTime = 6
    /\ Cardinality(SlotsOf(TimerA.callback)) = 1
    /\ Cardinality(SlotsOf(TimerB.callback)) = 1

\* C12 as stated: with A (id "a", 1000 microseconds) and B (id "b", 3000
\* microseconds) installed at clock 0, a handler pass once the clock has advanced
\* to 3.5 ms, where the millisecond clock reads 3, fires A 3 times and B once and
\* leaves A's nextFireTime 4 and B's 6.
C12_PairAtThreeAndAHalf ==
    \A t \in Threads :
        (pc[t] = "h_exit" /\ curTime[t] = 3 /\ PairAtZero) => PairOutcome

\* C12 amended: that outcome is the one of a pass that samples clock value 4; a
\* pass that samples 3 fires A twice (for 1 ms and 2 ms) and B not at all, and
\* leaves both next due at 3 ms.
C12_PairAtFour ==
    \A t \in Threads :
        /\ (pc[t] = "h_exit" /\ curTime[t] = 4 /\ PairAtZero) => PairOutcome
        /\ (pc[t] = "h_exit" /\ curTime[t] = 3 /\ PairAtZero) =>
              /\ PassFires(TimerA.callback) = 2
              /\ PassFires(TimerB.callback) = 0
              /\ \A i \in DOMAIN queue : queue[i].nextFireTime = 3

C12_Witness ==
    \E t \in Threads :
        /\ pc[t] = "h_exit"
        /\ curTime[t] = 4
        /\ PairAtZero
        /\ PairOutcome
        /\ Len(queue) = 2

\* ---- C13 ----------------------------------------------------------------------
\* C13: within one handler pass the callbacks are taken for firing in non-decreasing
\* order of the nextFireTime they were scheduled for: no slot is taken with a
\* scheduled time earlier than that of a slot taken before it in the same pass.
C13_FiringOrder ==
    \A i, j \in DOMAIN passLog :
        i < j => passLog[i].scheduled <= passLog[j].scheduled

C13_Witness ==
    /\ \E i, j, k \in DOMAIN passLog :
          /\ i < j /\ j < k
          /\ passLog[i].callback # passLog[j].callback
          /\ passLog[i].scheduled < passLog[j].scheduled
          /\ passLog[j].scheduled < passLog[k].scheduled
    /\ \E t \in Threads : pc[t] = "h_exit"

\* ---- C14 ----------------------------------------------------------------------
\* the positions of installTimerProc, removeTimerProc and handler between taking
\* the mutex and releasing it; "h_invoke" is the callback being invoked
InsideLock ==
    {"i_check", "i_error", "i_register", "i_insert", "i_return",
     "r_scan", "r_erase", "r_return",
     "h_loop", "h_error", "h_reinsert", "h_invoke", "h_exit"}

ThreadsInside == {t \in Threads : pc[t] \in InsideLock}

OnlyOwnerInside ==
    /\ Cardinality(ThreadsInside) <= 1
    /\ \A t \in ThreadsInside : mutex = t
    /\ mutex # NoThread => mutex \in ThreadsInside

AccessUnderLock ==
    (queue' # queue \/ callbacks' # callbacks) =>
        /\ mutex \in ThreadsInside
        /\ mutex' = mutex
        /\ pc'[mutex] \in InsideLock

\* C14: with several threads calling installTimerProc, removeTimerProc and handler,
\* at most one thread is between its lock and its unlock at any time, that thread
\* owns the mutex, callback invocations included, and every step that changes the
\* queue or the registry is taken by the owner, who still owns the mutex after it.
C14_MutualExclusion == []OnlyOwnerInside /\ [][AccessUnderLock]_vars

C14_Witness ==
    \E t, u \in Threads :
        /\ t # u
        /\ pc[t] = "h_invoke"
        /\ mutex = t
        /\ slot[t].callback \in installed
        /\ pc[u] = "idle"
        /\ \E c \in Callbacks : c # slot[t].callback /\ c \in installed

\* ---- C15 ----------------------------------------------------------------------
\* C15: under every interleaving of installs, removals and handler passes, whenever
\* the mutex is not held every callback installed and not since removed has exactly
\* one slot in the queue, no other slot exists, and no slot is unlinked from the
\* queue (taken for firing but not yet reinserted).
C15_SlotsWhenUnlocked ==
    mutex = NoThread =>
        /\ \A c \in Callbacks :
              Cardinality(SlotsOf(c)) = IF c \in installed THEN 1 ELSE 0
        /\ Len(queue) = Cardinality(installed)
        /\ \A i \in DOMAIN queue : queue[i].callback \in Callbacks
        /\ \A t \in Threads : slot[t] = NoSlot /\ pc[t] \notin InsideLock

C15_Witness ==
    /\ mutex = NoThread
    /\ Len(queue) = 1
    /\ installed = {queue[1].callback}
    /\ fireCount[queue[1].callback] > 0
    /\ removed = Callbacks \ installed

\* ---- C16 ----------------------------------------------------------------------
\* the steps of a checkTimers call of the polling thread
CheckTimersSteps ==
    LET p == PollThread
    IN  /\ (pc[p] = "idle" /\ pc'[p] \in {"c_handler", "c_return"}) =>
              /\ ctTime'[p] = clock
              /\ pc'[p] = "c_handler" <=> clock >= timerCallbackNext
              /\ UNCHANGED <<timerCallbackNext, queue, callbacks>>
        /\ pc[p] = "c_handler" => pc'[p] \in {"c_handler", "h_loop"}
        /\ pc[p] = "c_return" =>
              /\ pc'[p] \in {"c_return", "idle"}
              /\ pc'[p] = "idle" => UNCHANGED <<timerCallbackNext, queue, callbacks>>
        /\ (pc[p] = "c_set" /\ pc'[p] = "idle") =>
              timerCallbackNext' = ctTime[p] + ctInterval[p]
        /\ timerCallbackNext' # timerCallbackNext => pc[p] = "c_set"

\* a handler run is about to start through checkTimers: the clock value sampled is
\* at least the previous run's sample plus the previous call's interval
RunsApart ==
    (pc[PollThread] = "c_handler" /\ lastRun # NoRun) =>
        ctTime[PollThread] >= lastRun.time + lastRun.interval

\* C16: checkTimers(interval) runs handler if and only if the clock value it
\* samples is >= _timerCallbackNext and then sets _timerCallbackNext to the sample
\* plus interval; with a single caller two consecutive runs are at least the
\* earlier call's interval apart in sampled time, and a call that does not run
\* handler leaves _timerCallbackNext and the queue unchanged.
C16_CheckTimers == []RunsApart /\ [][CheckTimersSteps]_vars

C16_Witness ==
    /\ pc[PollThread] = "c_handler"
    /\ lastRun # NoRun
    /\ lastRun.interval = 2
    /\ ctTime[PollThread] = lastRun.time + lastRun.interval
    /\ timerCallbackNext = ctTime[PollThread]
    /\ queue # <<>>

\* ---- C17 ----------------------------------------------------------------------
\* q2 is q with the one slot s added at some position, the others as they were
AddsOneSlot(q, q2, s) ==
    \E p \in 1..(Len(q) + 1) :
        q2 = SubSeq(q, 1, p - 1) \o <<s>> \o SubSeq(q, p, Len(q))

InstallSteps(t) ==
    LET a == args[t]
    IN  /\ (pc[t] = "i_register" /\ pc'[t] # "i_register") =>
              /\ pc'[t] = "i_insert"
              /\ DOMAIN callbacks' = DOMAIN callbacks \cup {a.id}
              /\ callbacks'[a.id] = a.callback
              /\ \A k \in DOMAIN callbacks \ {a.id} : callbacks'[k] = callbacks[k]
              /\ queue' = queue
        /\ (pc[t] = "i_insert" /\ pc'[t] # "i_insert") =>
              /\ pc'[t] = "i_return"
              /\ AddsOneSlot(queue, queue',
                    [callback |-> a.callback, refCon |-> a.refCon, id |-> a.id,
                     interval |-> a.interval,
                     nextFireTime |-> clock + (a.interval \div 1000),
                     nextFireTimeMicro |-> a.interval % 1000])
              /\ callbacks' = callbacks
        /\ (pc[t] = "i_return" /\ pc'[t] # "i_return") =>
              /\ pc'[t] = "idle"
              /\ fatal' = "none"
              /\ mutex' = NoThread
              /\ a.callback \in installed'
              /\ Cardinality(SlotsOf(a.callback)) = 1
              /\ a.id \in DOMAIN callbacks /\ callbacks[a.id] = a.callback
              /\ queue' = queue /\ callbacks' = callbacks

\* C17: an installTimerProc(callback, interval, refCon, id) that passes the checks,
\* at clock value now, records id -> callback in the registry, adds exactly one slot
\* with these four fields, nextFireTime = now + interval div 1000 and
\* nextFireTimeMicro = interval mod 1000, leaves every other slot and their order
\* as they were, and returns normally with the timer installed.
C17_InstallAddsOneSlot == [][\A t \in Threads : InstallSteps(t)]_vars

C17_Witness ==
    \E t \in Threads :
        /\ pc[t] = "i_return"
        /\ Len(queue) = 2
        /\ clock = 2
        /\ queue[1].callback = args[t].callback
        /\ queue[1].interval = 500
        /\ queue[1].nextFireTime = 2
        /\ queue[1].nextFireTimeMicro = 500
        /\ queue[2].nextFireTime = 3
        /\ callbacks[args[t].id] = args[t].callback

\* ---- C18 ----------------------------------------------------------------------
\* installTimerProc of thread t has just linked its slot: the slot's place in the
\* queue, and the places of the other slots with the same nextFireTime
InstalledAt(t) == CHOOSE i \in DOMAIN queue : queue[i].callback = args[t].callback

EqualDeadline(t) ==
    {j \in DOMAIN queue : /\ j # InstalledAt(t)
                          /\ queue[j].nextFireTime = queue[InstalledAt(t)].nextFireTime}

\* C18 as stated: a slot inserted by installTimerProc with the nextFireTime of
\* slots already in the queue is placed before those slots.
C18_NewSlotBeforeEqual ==
    \A t \in Threads :
        pc[t] = "i_return" => \A j \in EqualDeadline(t) : InstalledAt(t) < j

\* C18 amended: it is placed after those slots, and before the first slot with a
\* strictly later nextFireTime.
C18_NewSlotAfterEqual ==
    \A t \in Threads :
        pc[t] = "i_return" =>
            /\ \A j \in EqualDeadline(t) : j < InstalledAt(t)
            /\ \A j \in DOMAIN queue :
                  /\ j < InstalledAt(t) =>
                        queue[j].nextFireTime <= queue[InstalledAt(t)].nextFireTime
                  /\ j > InstalledAt(t) =>
                        queue[j].nextFireTime > queue[InstalledAt(t)].nextFireTime

C18_Witness ==
    \E t \in Threads :
        /\ pc[t] = "i_return"
        /\ EqualDeadline(t) # {}
        /\ InstalledAt(t) = Len(queue)
        /\ queue[InstalledAt(t)].interval # queue[1].interval

\* ---- C19 ----------------------------------------------------------------------
\* C19: a handler pass that samples curTime takes a slot for firing only while the
\* slot's nextFireTime is strictly less than curTime, so never one whose
\* nextFireTime equals curTime, and when the loop is left, and the pass returns,
\* every slot in the queue has nextFireTime >= curTime.
C19_StrictlyBefore ==
    \A t \in Threads :
        /\ pc[t] \in {"h_loop", "h_error", "h_reinsert", "h_invoke", "h_exit"} =>
              \A i \in DOMAIN passLog : passLog[i].scheduled < curTime[t]
        /\ pc[t] = "h_exit" =>
              \A i \in DOMAIN queue : queue[i].nextFireTime >= curTime[t]

C19_Witness ==
    \E t \in Threads, c \in Callbacks :
        /\ pc[t] = "h_exit"
        /\ passLog # <<>>
        /\ passStart[c] = curTime[t] * 1000
        /\ PassFires(c) = 0
        /\ \E i \in SlotsOf(c) : queue[i].nextFireTime = curTime[t]

\* ---- C20 ----------------------------------------------------------------------
InPass(t) == pc[t] \in {"h_loop", "h_reinsert", "h_invoke", "h_exit"}

\* the interval of callback c's slot, linked or taken for firing
IntervalOf(c) ==
    LET S == {queue[i] : i \in SlotsOf(c)}
               \cup {slot[t] : t \in {u \in Threads : slot[u].callback = c}}
    IN  (CHOOSE s \in S : TRUE).interval

\* a slot whose deadline was d microseconds when the pass began is taken for firing
\* at most (curTime * 1000 - d) div interval + 1 times in the pass
PassBounded ==
    \A t \in Threads :
        InPass(t) =>
            \A c \in Callbacks :
                PassFires(c) <=
                    IF passStart[c] # NoTime /\ passStart[c] <= curTime[t] * 1000
                    THEN (curTime[t] * 1000 - passStart[c]) \div IntervalOf(c) + 1
                    ELSE 0

PassEndsNotDue ==
    \A t \in Threads :
        pc[t] = "h_exit" => queue = <<>> \/ queue[1].nextFireTime >= curTime[t]

\* C20: every handler pass over slots with interval > 0, intervals below 1000
\* microseconds included, ends after finitely many firings, bounded by the sampled
\* clock value, and it ends when the queue is empty or its first slot is not due.
C20_PassTerminates ==
    /\ [](PassBounded /\ PassEndsNotDue)
    /\ \A t \in Threads : InPass(t) ~> pc[t] = "idle"

C20_Witness ==
    \E t \in Threads, c \in Callbacks :
        /\ pc[t] = "h_exit"
        /\ curTime[t] = 3
        /\ Len(queue) = 2
        /\ IntervalOf(c) = 250
        /\ PassFires(c) >= 9
        /\ \E d \in Callbacks : d # c /\ PassFires(d) >= 1

\* ---- C21 ----------------------------------------------------------------------
RegisteredCallbacks == {callbacks[k] : k \in DOMAIN callbacks}

\* C21: at the moment handler invokes a callback, the firing slot is already back
\* in the queue, once, with its deadline advanced by one interval past the firings
\* made so far, the queue is sorted by nextFireTime, and it holds exactly one slot
\* for every registered callback and no other slot.
C21_RelinkedBeforeInvoke ==
    \A t \in Threads :
        pc[t] = "h_invoke" =>
            LET c == slot[t].callback
            IN  /\ Cardinality({i \in DOMAIN queue : queue[i] = slot[t]}) = 1
                /\ Cardinality(SlotsOf(c)) = 1
                /\ Combined(slot[t])
                      = firstDeadline[c] + (fireCount[c] + 1) * slot[t].interval
                /\ passLog # <<>>
                /\ passLog[Len(passLog)].callback = c
                /\ slot[t].nextFireTime >= passLog[Len(passLog)].scheduled
                /\ \A i, j \in DOMAIN queue :
                      i < j => queue[i].nextFireTime <= queue[j].nextFireTime
                /\ \A d \in Callbacks :
                      Cardinality(SlotsOf(d))
                          = IF d \in RegisteredCallbacks THEN 1 ELSE 0
                /\ Len(queue) = Cardinality(RegisteredCallbacks)

C21_Witness ==
    \E t \in Threads :
        /\ pc[t] = "h_invoke"
        /\ Len(queue) = 2
        /\ queue[2] = slot[t]
        /\ fireCount[slot[t].callback] >= 1
        /\ slot[t].nextFireTime > passLog[Len(passLog)].scheduled

\* ---- C22 ----------------------------------------------------------------------
\* the slots that exist: linked in the queue, or taken for firing by a handler
SlotRecords ==
    ({queue[i] : i \in DOMAIN queue} \cup {slot[t] : t \in Threads}) \ {NoSlot}

IntervalsPositive ==
    /\ \A s \in SlotRecords : s.interval > 0
    /\ fatal # "assert(slot->interval > 0)"
    /\ \A t \in Threads : pc[t] # "h_error"

IntervalsKept ==
    /\ \A c \in Callbacks :
          ((\E s \in SlotRecords : s.callback = c)
             /\ (\E s \in SlotRecords' : s.callback = c)) =>
                IntervalOf(c)' = IntervalOf(c)
    /\ (fatal = "none" /\ fatal' = "assert(interval > 0)") =>
          UNCHANGED <<queue, callbacks, mutex, timerCallbackNext, pc, slot>>

\* C22: in every reachable state every slot has interval > 0: installTimerProc
\* stops on interval <= 0 before it touches any state, no step changes the interval
\* of a slot, and the handler's check of a due slot's interval never fails.
C22_IntervalPositive == []IntervalsPositive /\ [][IntervalsKept]_vars

C22_Witness ==
    \E t \in Threads :
        /\ pc[t] = "h_reinsert"
        /\ slot[t].interval = 500
        /\ fireCount[slot[t].callback] >= 1
        /\ removed # {}
        /\ queue = <<>>

\* ---- C23 ----------------------------------------------------------------------
HandlerPcs == {"h_loop", "h_error", "h_reinsert", "h_invoke", "h_exit"}

\* the fields of a slot that are not its deadline
Identity(s) ==
    [callback |-> s.callback, refCon |-> s.refCon, id |-> s.id,
     interval |-> s.interval]

DeadlineOf(c) == Combined(CHOOSE s \in SlotRecords : s.callback = c)

\* a step taken while some thread is entering, inside or leaving handler
PassFrame ==
    (\E t \in Threads : pc[t] \in HandlerPcs \/ pc'[t] \in HandlerPcs) =>
        /\ {Identity(s) : s \in SlotRecords'} = {Identity(s) : s \in SlotRecords}
        /\ Cardinality(SlotRecords') = Cardinality(SlotRecords)
        /\ callbacks' = callbacks
        /\ \A c \in {s.callback : s \in SlotRecords} :
              DeadlineOf(c)' # DeadlineOf(c) =>
                  \E t \in Threads :
                      /\ pc[t] = "h_loop" /\ pc'[t] = "h_reinsert"
                      /\ Head(queue).callback = c
                      /\ Head(queue).nextFireTime < curTime[t]
        /\ queue' # queue =>
              \E t \in Threads : pc[t] \in {"h_loop", "h_reinsert"} /\ pc'[t] # pc[t]

\* when the loop is left: the slots are those of the beginning of the pass, a slot
\* that did not fire has the deadline it had then, a slot that fired n times has
\* that deadline plus n intervals
PassOutcome ==
    \A t \in Threads :
        pc[t] = "h_exit" =>
            \A c \in Callbacks :
                /\ passStart[c] # NoTime <=> SlotsOf(c) # {}
                /\ Cardinality(SlotsOf(c)) <= 1
                /\ SlotsOf(c) # {} =>
                      DeadlineOf(c) = passStart[c] + PassFires(c) * IntervalOf(c)

\* C23: a handler pass changes only nextFireTime and nextFireTimeMicro of the slots
\* it fires and the order of the queue: the set of slots, every slot's callback,
\* refCon, id and interval, the registry and the deadlines of the slots that did not
\* fire are as they were.
C23_HandlerFrame == []PassOutcome /\ [][PassFrame]_vars

C23_Witness ==
    \E t \in Threads :
        /\ pc[t] = "h_exit"
        /\ Len(queue) = 2
        /\ PassFires(queue[1].callback) = 0
        /\ PassFires(queue[2].callback) >= 1
        /\ passStart[queue[2].callback] < passStart[queue[1].callback]

\* ---- C24 ----------------------------------------------------------------------
\* callback c's slot is overdue and a checkTimers call at this clock value would run
\* handler
Overdue(c) ==
    /\ Running
    /\ clock >= timerCallbackNext
    /\ \E i \in SlotsOf(c) : queue[i].nextFireTime < clock

BeingFired(c) == \E t \in Threads : pc[t] = "h_invoke" /\ slot[t].callback = c

\* C24: with checkTimers called again and again, a registered slot that is overdue
\* when a poll is due is fired, whatever other slots are in the queue, slots with
\* shorter and sub-millisecond intervals included (or the process has ended in
\* error()); with a clock that advances without bound every deadline becomes
\* overdue and every poll due, so a slot that stays registered is fired again and
\* again.
C24_NoStarvation ==
    \A c \in Callbacks : Overdue(c) ~> (BeingFired(c) \/ ~Running)

C24_Witness ==
    \E t \in Threads :
        /\ pc[t] = "h_invoke"
        /\ slot[t].interval = 1000
        /\ Len(queue) = 2
        /\ \E d \in Callbacks :
              /\ d # slot[t].callback
              /\ PassFires(d) >= 2
              /\ IntervalOf(d) = 500
        /\ PassFires(slot[t].callback) = 1
        /\ Overdue(slot[t].callback)

====
